---- MODULE Spec2Model ----
(***************************************************************************)
(* A model of innit (src/src/lib.rs): the IniDocument nested map, its      *)
(* accessors and mutators, the line-oriented parser from_string and the    *)
(* serializer to_string.                                                   *)
(*                                                                         *)
(* A Rust String is modelled as a sequence of one-character strings, so    *)
(* that trimming, splitting and prefix tests are computed character by     *)
(* character.  A HashMap<String, T> is a function whose domain is a set of *)
(* such sequences.  Option<T> is a record [some, val].                     *)
(***************************************************************************)
EXTENDS Integers, Sequences, FiniteSets, TLC

VARIABLES
    text,       \* the input handed to from_string (a character sequence)
    result,     \* what from_string returned for `text` (NoResult before the call)
    sections,   \* IniDocument.sections of the document the caller holds
    ret,        \* the value the last operation returned
    lastOp,     \* the last operation called, with its arguments
    scan,       \* the order in which the last call iterated over `sections`
    out,        \* the String the last to_string call returned
    model       \* reference flat map (section, key) -> value and live sections

vars == <<text, result, sections, ret, lastOp, scan, out, model>>

---------------------------------------------------------------------------
(* Option<T>                                                               *)

None == [some |-> FALSE, val |-> <<>>]

Some(v) == [some |-> TRUE, val |-> v]

---------------------------------------------------------------------------
(* Characters and strings                                                  *)

\* const LINE_DELIM: &str = "\n" (the build without the crlf feature)
LINE_DELIM == "\n"

\* char::is_whitespace, on the characters the model uses
IsWhitespace(c) == c \in {" ", "\t", "\r", "\n"}

\* the index of the first character of s, from i on, that is no whitespace
RECURSIVE SkipStart(_, _)
SkipStart(s, i) ==
    IF i <= Len(s) /\ IsWhitespace(s[i]) THEN SkipStart(s, i + 1) ELSE i

\* the index of the last character of s, from j back, that is no whitespace
RECURSIVE SkipEnd(_, _)
SkipEnd(s, j) ==
    IF j >= 1 /\ IsWhitespace(s[j]) THEN SkipEnd(s, j - 1) ELSE j

\* a trim that strips the front only (str::trim_start)
trim_start(s) == SubSeq(s, SkipStart(s, 1), Len(s))

\* str::trim
trim(s) == SubSeq(s, SkipStart(s, 1), SkipEnd(s, Len(s)))

\* str::starts_with(char) and str::ends_with(char)
starts_with(s, c) == s # <<>> /\ s[1] = c

ends_with(s, c) == s # <<>> /\ s[Len(s)] = c

\* str::split(LINE_DELIM): the pieces between the delimiters, empty ones kept
\* (from: where the current piece starts, i: the character looked at)
RECURSIVE SplitFrom(_, _, _)
SplitFrom(s, from, i) ==
    IF i > Len(s) THEN <<SubSeq(s, from, Len(s))>>
    ELSE IF s[i] = LINE_DELIM
         THEN <<SubSeq(s, from, i - 1)>> \o SplitFrom(s, i + 1, i + 1)
         ELSE SplitFrom(s, from, i + 1)

split(s) == SplitFrom(s, 1, 1)

\* char::to_lowercase / str::to_lowercase on the model's letters
LowerChar(c) ==
    CASE c = "A" -> "a"
      [] c = "J" -> "j"
      [] c = "K" -> "k"
      [] c = "S" -> "s"
      [] OTHER -> c

to_lowercase(s) == [i \in 1..Len(s) |-> LowerChar(s[i])]

---------------------------------------------------------------------------
(* Line classification (lib.rs 263-278)                                    *)

\* a classification that knows '#' comments only
string_is_hash_comment_or_empty(s) ==
    s = <<>> \/ starts_with(s, "#")

string_is_comment_or_empty(s) ==
    s = <<>> \/ starts_with(s, "#") \/ starts_with(s, ";")

string_is_section_start(s) ==
    IF starts_with(s, "[") /\ ends_with(s, "]")
    THEN Some(SubSeq(s, 2, Len(s) - 1))
    ELSE None

\* str::split_once('='): the index of the first '=', 0 when there is none
RECURSIVE FindEq(_, _)
FindEq(s, i) ==
    IF i > Len(s) THEN 0
    ELSE IF s[i] = "=" THEN i
    ELSE FindEq(s, i + 1)

\* str::rsplit_once('='): the index of the last '=', 0 when there is none
RECURSIVE FindLastEq(_, _)
FindLastEq(s, i) ==
    IF i < 1 THEN 0
    ELSE IF s[i] = "=" THEN i
    ELSE FindLastEq(s, i - 1)

\* a parse_k_v that splits at the last '='
rparse_k_v(s) ==
    LET p == FindLastEq(s, Len(s)) IN
    IF p = 0 THEN None
    ELSE Some(<<trim(SubSeq(s, 1, p - 1)), trim(SubSeq(s, p + 1, Len(s)))>>)

parse_k_v(s) ==
    LET p == FindEq(s, 1) IN
    IF p = 0 THEN None
    ELSE Some(<<trim(SubSeq(s, 1, p - 1)), trim(SubSeq(s, p + 1, Len(s)))>>)

---------------------------------------------------------------------------
(* IniDocument (lib.rs 59-123)                                             *)

\* HashMap::new()
EmptyMap == <<>>

\* IniDocument::empty
empty == EmptyMap

\* HashMap::insert on a map m
MapPut(m, k, v) == [x \in DOMAIN m \cup {k} |-> IF x = k THEN v ELSE m[x]]

\* HashMap::remove on a map m
MapDel(m, k) == [x \in DOMAIN m \ {k} |-> m[x]]

\* HashMap::get
MapGet(m, k) == IF k \in DOMAIN m THEN Some(m[k]) ELSE None

\* an insert that refuses the section name "", as the parser does
insert_named(secs, key, value, section) ==
    IF section = <<>> THEN [sections |-> secs, ret |-> None]
    ELSE IF section \in DOMAIN secs
    THEN [sections |-> MapPut(secs, section, MapPut(secs[section], key, value)),
          ret |-> MapGet(secs[section], key)]
    ELSE [sections |-> MapPut(secs, section, MapPut(EmptyMap, key, value)),
          ret |-> None]

\* IniDocument::insert: the new sections and the returned Option<String>
insert(secs, key, value, section) ==
    IF section \in DOMAIN secs
    THEN [sections |-> MapPut(secs, section, MapPut(secs[section], key, value)),
          ret |-> MapGet(secs[section], key)]
    ELSE [sections |-> MapPut(secs, section, MapPut(EmptyMap, key, value)),
          ret |-> None]

\* IniDocument::get
get(secs, key, section) ==
    IF section \in DOMAIN secs THEN MapGet(secs[section], key) ELSE None

\* IniDocument::get_section
get_section(secs, section) == MapGet(secs, section)

\* a remove that drops the section with its last key
remove_and_prune(secs, key, section) ==
    IF section \in DOMAIN secs
    THEN [sections |-> IF DOMAIN secs[section] \subseteq {key}
                       THEN MapDel(secs, section)
                       ELSE MapPut(secs, section, MapDel(secs[section], key)),
          ret |-> MapGet(secs[section], key)]
    ELSE [sections |-> secs, ret |-> None]

\* IniDocument::remove
remove(secs, key, section) ==
    IF section \in DOMAIN secs
    THEN [sections |-> MapPut(secs, section, MapDel(secs[section], key)),
          ret |-> MapGet(secs[section], key)]
    ELSE [sections |-> secs, ret |-> None]

\* a remove_section that empties the section and keeps its name
clear_section(secs, section) ==
    [sections |-> IF section \in DOMAIN secs THEN MapPut(secs, section, EmptyMap) ELSE secs,
     ret |-> MapGet(secs, section)]

\* IniDocument::remove_section
remove_section(secs, section) ==
    [sections |-> MapDel(secs, section), ret |-> MapGet(secs, section)]

\* IniDocument::is_empty
is_empty(secs) ==
    IF DOMAIN secs = {} THEN TRUE
    ELSE ~(\E s \in DOMAIN secs : DOMAIN secs[s] # {})

---------------------------------------------------------------------------
(* Case-insensitive accessors (lib.rs 171-245).  A HashMap is iterated in  *)
(* an order the program does not choose: sc.order is the order of the      *)
(* sections the call meets, sc.keys[name] that of the keys of a section.   *)

\* for (k, _) in data { if k.to_lowercase() == key { ... } }: the first hit
RECURSIVE FindKey(_, _, _)
FindKey(ks, i, key) ==
    IF i > Len(ks) THEN None
    ELSE IF to_lowercase(ks[i]) = key THEN Some(ks[i])
    ELSE FindKey(ks, i + 1, key)

\* the nested loops of get_case_insensitive and remove_case_insensitive,
\* from section i of the scan on: the <<section, key>> the scan stops at
RECURSIVE FindEntry(_, _, _, _)
FindEntry(sc, i, key, section) ==
    IF i > Len(sc.order) THEN None
    ELSE IF to_lowercase(sc.order[i]) = section
         THEN LET hit == FindKey(sc.keys[sc.order[i]], 1, key) IN
              IF hit.some THEN Some(<<sc.order[i], hit.val>>)
              ELSE FindEntry(sc, i + 1, key, section)
         ELSE FindEntry(sc, i + 1, key, section)

\* for (name, _) in sections { if name.to_lowercase() == section { ... } }
RECURSIVE FindSection(_, _, _)
FindSection(order, i, section) ==
    IF i > Len(order) THEN None
    ELSE IF to_lowercase(order[i]) = section THEN Some(order[i])
    ELSE FindSection(order, i + 1, section)

\* IniDocument::get_case_insensitive
get_case_insensitive(secs, sc, key, section) ==
    LET hit == FindEntry(sc, 1, to_lowercase(key), to_lowercase(section)) IN
    IF hit.some THEN Some(secs[hit.val[1]][hit.val[2]]) ELSE None

\* IniDocument::get_section_case_insensitive
get_section_case_insensitive(secs, sc, section) ==
    LET hit == FindSection(sc.order, 1, to_lowercase(section)) IN
    IF hit.some THEN Some(secs[hit.val]) ELSE None

\* IniDocument::remove_case_insensitive
remove_case_insensitive(secs, sc, key, section) ==
    LET hit == FindEntry(sc, 1, to_lowercase(key), to_lowercase(section)) IN
    IF hit.some
    THEN [sections |-> MapPut(secs, hit.val[1], MapDel(secs[hit.val[1]], hit.val[2])),
          ret |-> MapGet(secs[hit.val[1]], hit.val[2])]
    ELSE [sections |-> secs, ret |-> None]

\* IniDocument::remove_section_case_insensitive
remove_section_case_insensitive(secs, sc, section) ==
    LET hit == FindSection(sc.order, 1, to_lowercase(section)) IN
    IF hit.some
    THEN [sections |-> MapDel(secs, hit.val), ret |-> MapGet(secs, hit.val)]
    ELSE [sections |-> secs, ret |-> None]

\* every order in which the elements of a set can be met
RECURSIVE Orders(_)
Orders(S) ==
    IF S = {} THEN {<<>>}
    ELSE UNION {{<<x>> \o o : o \in Orders(S \ {x})} : x \in S}

\* every choice of an order for the keys of each of the sections in names
RECURSIVE KeyOrders(_, _)
KeyOrders(secs, names) ==
    IF names = {} THEN {EmptyMap}
    ELSE LET n == CHOOSE x \in names : TRUE IN
         {MapPut(f, n, o) : f \in KeyOrders(secs, names \ {n}),
                            o \in Orders(DOMAIN secs[n])}

\* every way a call can iterate over a nested map
Scans(secs) == [order : Orders(DOMAIN secs), keys : KeyOrders(secs, DOMAIN secs)]

---------------------------------------------------------------------------
(* InnitError and Result<IniDocument, InnitError> (lib.rs 283-291)         *)

MissingEquals(t, n) == [kind |-> "MissingEquals", text |-> t, lnum |-> n]

EmptyStringSection(n) == [kind |-> "EmptyStringSection", text |-> <<>>, lnum |-> n]

Ok(d) == [tag |-> "Ok", doc |-> d]

Err(e) == [tag |-> "Err", err |-> e]

NoResult == [tag |-> "NoResult"]

---------------------------------------------------------------------------
(* IniDocument::from_string (lib.rs 128-149)                               *)

\* a loop that parses on behind an offending line and reports the last error
RECURSIVE ParseLoopLastError(_, _, _, _)
ParseLoopLastError(lines, lnum, document, cur_section) ==
    IF lnum >= Len(lines) THEN Ok(document)
    ELSE
        LET line == trim(lines[lnum + 1])
            name == string_is_section_start(line)
            kv == parse_k_v(line)
            rest == ParseLoopLastError(lines, lnum + 1, document, cur_section)
        IN  IF string_is_comment_or_empty(line) THEN rest
            ELSE IF name.some
            THEN IF name.val = <<>>
                 THEN (IF rest.tag = "Err" THEN rest ELSE Err(EmptyStringSection(lnum + 1)))
                 ELSE ParseLoopLastError(lines, lnum + 1, document, name.val)
            ELSE IF ~kv.some
            THEN (IF rest.tag = "Err" THEN rest ELSE Err(MissingEquals(line, lnum + 1)))
            ELSE ParseLoopLastError(lines, lnum + 1,
                                    insert(document, kv.val[1], kv.val[2], cur_section).sections,
                                    cur_section)

\* the body of the for loop, from the line with enumerate() index lnum on
RECURSIVE ParseLoop(_, _, _, _)
ParseLoop(lines, lnum, document, cur_section) ==
    IF lnum >= Len(lines) THEN Ok(document)
    ELSE
        LET line == trim(lines[lnum + 1]) IN
        IF ~string_is_comment_or_empty(line)
        THEN
            LET name == string_is_section_start(line) IN
            IF name.some
            THEN
                IF name.val = <<>>
                THEN Err(EmptyStringSection(lnum + 1))
                ELSE ParseLoop(lines, lnum + 1, document, name.val)
            ELSE
                LET kv == parse_k_v(line) IN
                IF ~kv.some
                THEN Err(MissingEquals(line, lnum + 1))
                ELSE ParseLoop(lines, lnum + 1,
                               insert(document, kv.val[1], kv.val[2], cur_section).sections,
                               cur_section)
        ELSE ParseLoop(lines, lnum + 1, document, cur_section)

from_string(s) == ParseLoop(split(s), 0, empty, <<>>)

---------------------------------------------------------------------------
(* IniDocument::to_string and fmt_hashmap (lib.rs 151-167, 248-256)        *)

\* format!("{} = {}{}", k, v, LINE_DELIM)
FmtPair(k, v) == k \o <<" ", "=", " ">> \o v \o <<LINE_DELIM>>

\* fmt_hashmap(h), h iterated in the order ks, from its i-th key on
RECURSIVE FmtFrom(_, _, _)
FmtFrom(h, ks, i) ==
    IF i > Len(ks) THEN <<>>
    ELSE FmtPair(ks[i], h[ks[i]]) \o FmtFrom(h, ks, i + 1)

\* a fmt_hashmap that puts the delimiter between the lines only
join_hashmap(h, ks) ==
    LET all == FmtFrom(h, ks, 1) IN
    IF all = <<>> THEN <<>> ELSE SubSeq(all, 1, Len(all) - 1)

fmt_hashmap(h, ks) == FmtFrom(h, ks, 1)

\* for (k, v) in &self.sections { ... }, from the i-th section of the scan on
RECURSIVE FmtSections(_, _, _)
FmtSections(secs, sc, i) ==
    IF i > Len(sc.order) THEN <<>>
    ELSE LET k == sc.order[i] IN
         IF k = <<>>
         THEN FmtSections(secs, sc, i + 1)
         ELSE <<"[">> \o k \o <<"]", LINE_DELIM>>
                \o fmt_hashmap(secs[k], sc.keys[k])
                \o FmtSections(secs, sc, i + 1)

\* a to_string that writes the section "" where the scan meets it
RECURSIVE FmtAsMet(_, _, _)
FmtAsMet(secs, sc, i) ==
    IF i > Len(sc.order) THEN <<>>
    ELSE LET k == sc.order[i] IN
         (IF k = <<>> THEN <<>> ELSE <<"[">> \o k \o <<"]", LINE_DELIM>>)
            \o fmt_hashmap(secs[k], sc.keys[k])
            \o FmtAsMet(secs, sc, i + 1)

to_string_as_met(secs, sc) == FmtAsMet(secs, sc, 1)

to_string(secs, sc) ==
    (IF <<>> \in DOMAIN secs THEN fmt_hashmap(secs[<<>>], sc.keys[<<>>]) ELSE <<>>)
        \o FmtSections(secs, sc, 1)

---------------------------------------------------------------------------
(* The parser's callers: a text is put together line by line and parsed.   *)

MaxLines == 4

\* the lines a text is made of: blank, comments, headers, pairs, bad lines
LinePool ==
    { <<" ">>,                                       \* blank
      <<"\t", "#", "a", "=">>,                       \* comment after whitespace
      <<";", "[", "]">>,                             \* comment
      <<" ", "[", " ", "s", "]", " ">>,              \* header " s"
      <<"\t", "[", "]", " ">>,                       \* the empty header
      <<"a", "=", "x">>,                             \* a -> x
      <<" ", "a", " ", "=", " ", "y", "=", "#", " ">>, \* a -> y=#
      <<" ", "[", "b", " ">> }                       \* no '=' and no header

\* the positions at which the lines of text t start
LineStarts(t) == {1} \cup {j + 1 : j \in {x \in 1..Len(t) : t[x] = LINE_DELIM}}

NumLines(t) == Cardinality(LineStarts(t))

\* the position after the line that starts at p: its delimiter, or Len(t) + 1
RECURSIVE LineEnd(_, _)
LineEnd(t, p) ==
    IF p > Len(t) \/ t[p] = LINE_DELIM THEN p ELSE LineEnd(t, p + 1)

\* the text of the line that starts at p
LineAt(t, p) == SubSeq(t, p, LineEnd(t, p) - 1)

\* t with line l put in front of the line that starts at p
InsertBefore(t, p, l) ==
    SubSeq(t, 1, p - 1) \o l \o <<LINE_DELIM>> \o SubSeq(t, p, Len(t))

\* t with line l put after its last line
InsertLast(t, l) == t \o <<LINE_DELIM>> \o l

\* t without the line that starts at p (and without one delimiter)
DeleteLineAt(t, p) ==
    LET e == LineEnd(t, p) IN
    IF e <= Len(t)
    THEN SubSeq(t, 1, p - 1) \o SubSeq(t, e + 1, Len(t))
    ELSE SubSeq(t, 1, p - 2)

Idle == [op |-> "none"]

InitParse ==
    /\ text \in LinePool
    /\ result = NoResult
    /\ sections = empty
    /\ ret = None
    /\ lastOp = Idle
    /\ scan = <<>>
    /\ out = <<>>
    /\ model = <<>>

\* the caller puts one more line into the text, in front of the line at p
InsertLine(p, l) ==
    /\ result = NoResult
    /\ NumLines(text) < MaxLines
    /\ text' = InsertBefore(text, p, l)
    /\ UNCHANGED <<result, sections, ret, lastOp, scan, out, model>>

\* the caller puts one more line at the end of the text
AppendLine(l) ==
    /\ result = NoResult
    /\ NumLines(text) < MaxLines
    /\ text' = InsertLast(text, l)
    /\ UNCHANGED <<result, sections, ret, lastOp, scan, out, model>>

\* the caller takes the line at p out of the text
DeleteLine(p) ==
    /\ result = NoResult
    /\ NumLines(text) > 1
    /\ text' = DeleteLineAt(text, p)
    /\ UNCHANGED <<result, sections, ret, lastOp, scan, out, model>>

\* let document = IniDocument::from_string(text)
FromString ==
    /\ result = NoResult
    /\ result' = from_string(text)
    /\ UNCHANGED <<text, sections, ret, lastOp, scan, out, model>>

NextParse ==
    \/ \E p \in LineStarts(text), l \in LinePool : InsertLine(p, l)
    \/ \E l \in LinePool : AppendLine(l)
    \/ \E p \in LineStarts(text) : DeleteLine(p)
    \/ FromString

SpecParse == InitParse /\ [][NextParse]_vars

---------------------------------------------------------------------------
(* A caller of the document: it constructs a document, empty or from a     *)
(* text, and then reads and changes it.                                    *)

MaxTextLines == 3

Keys == { <<"a">>, <<"b">> }

Values == { <<"x">>, <<"y">> }

Sections == { <<>>, <<"s">> }

\* the lines of the texts a document is constructed from
DocLinePool ==
    { <<"a", "=", "x">>,
      <<"b", " ", "=", " ", "y">>,
      <<"[", "s", "]">>,
      <<"#", " ", "c">>,
      <<"b">>,
      <<" ", "[", "]", " ">> }

Op(o, k, v, s) == [op |-> o, key |-> k, value |-> v, section |-> s]

\* the reference: a flat map from <<section, key>> to value, the sections
\* that exist, and what the reference says the last call returns
Flat(m, l, e) == [map |-> m, live |-> l, expect |-> e]

FlatGet(m, s, k) == IF <<s, k>> \in DOMAIN m THEN Some(m[<<s, k>>]) ELSE None

\* the reference's view of section s as a key -> value map
FlatSlice(m, s) ==
    [k \in {x \in Keys : <<s, x>> \in DOMAIN m} |-> m[<<s, k>>]]

\* the flat view of a nested map
FlatOf(secs) ==
    [e \in {x \in Sections \X Keys : x[1] \in DOMAIN secs /\ x[2] \in DOMAIN secs[x[1]]}
        |-> secs[e[1]][e[2]]]

Init ==
    /\ text = <<>>
    /\ result = NoResult
    /\ sections = empty
    /\ ret = None
    /\ lastOp = Idle
    /\ scan = <<>>
    /\ out = <<>>
    /\ model = Flat(<<>>, {}, None)

\* IniDocument::from_string(t), called on a text of one more line or as is
Extend(l) ==
    /\ lastOp = Idle
    /\ result = NoResult
    /\ NumLines(text) < MaxTextLines
    /\ text' = IF text = <<>> THEN l ELSE InsertLast(text, l)
    /\ UNCHANGED <<result, sections, ret, lastOp, scan, out, model>>

Parse ==
    /\ lastOp = Idle
    /\ result = NoResult
    /\ text # <<>>
    /\ result' = from_string(text)
    /\ lastOp' = Op("from_string", <<>>, <<>>, <<>>)
    /\ UNCHANGED <<text, sections, ret, scan, out, model>>

\* let document = result.unwrap(): the caller takes the document out of Ok
Unwrap ==
    /\ result.tag = "Ok"
    /\ sections' = result.doc
    /\ model' = Flat(FlatOf(result.doc), DOMAIN result.doc, None)
    /\ result' = NoResult
    /\ text' = <<>>
    /\ lastOp' = Op("unwrap", <<>>, <<>>, <<>>)
    /\ UNCHANGED <<ret, scan, out>>

\* the caller keeps the error and goes on with an empty document
Fallback ==
    /\ result.tag = "Err"
    /\ text # <<>>
    /\ text' = <<>>
    /\ sections' = empty
    /\ model' = Flat(<<>>, {}, None)
    /\ lastOp' = Op("empty", <<>>, <<>>, <<>>)
    /\ UNCHANGED <<result, ret, scan, out>>

\* the document can be used when no text is being parsed
Usable == text = <<>> /\ result.tag # "Ok"

\* document.insert(k, v, s), whatever reference is kept beside it
CallInsert(k, v, s) ==
    /\ Usable
    /\ sections' = insert(sections, k, v, s).sections
    /\ ret' = insert(sections, k, v, s).ret
    /\ lastOp' = Op("insert", k, v, s)
    /\ UNCHANGED <<text, result, scan, out>>

\* document.get(k, s)
CallGet(k, s) ==
    /\ Usable
    /\ ret' = get(sections, k, s)
    /\ lastOp' = Op("get", k, <<>>, s)
    /\ UNCHANGED <<text, result, sections, scan, out>>

\* document.remove(k, s)
CallRemove(k, s) ==
    /\ Usable
    /\ sections' = remove(sections, k, s).sections
    /\ ret' = remove(sections, k, s).ret
    /\ lastOp' = Op("remove", k, <<>>, s)
    /\ UNCHANGED <<text, result, scan, out>>

Insert(k, v, s) ==
    /\ CallInsert(k, v, s)
    /\ model' = Flat([e \in DOMAIN model.map \cup {<<s, k>>} |->
                        IF e = <<s, k>> THEN v ELSE model.map[e]],
                     model.live \cup {s},
                     FlatGet(model.map, s, k))

Get(k, s) ==
    /\ CallGet(k, s)
    /\ model' = Flat(model.map, model.live, FlatGet(model.map, s, k))

GetSection(s) ==
    /\ Usable
    /\ ret' = get_section(sections, s)
    /\ lastOp' = Op("get_section", <<>>, <<>>, s)
    /\ model' = Flat(model.map, model.live,
                     IF s \in model.live THEN Some(FlatSlice(model.map, s)) ELSE None)
    /\ UNCHANGED <<text, result, sections, scan, out>>

Remove(k, s) ==
    /\ CallRemove(k, s)
    /\ model' = Flat([e \in DOMAIN model.map \ {<<s, k>>} |-> model.map[e]],
                     model.live,
                     FlatGet(model.map, s, k))

RemoveSection(s) ==
    /\ Usable
    /\ sections' = remove_section(sections, s).sections
    /\ ret' = remove_section(sections, s).ret
    /\ lastOp' = Op("remove_section", <<>>, <<>>, s)
    /\ model' = Flat([e \in {x \in DOMAIN model.map : x[1] # s} |-> model.map[e]],
                     model.live \ {s},
                     IF s \in model.live THEN Some(FlatSlice(model.map, s)) ELSE None)
    /\ UNCHANGED <<text, result, scan, out>>

IsEmpty ==
    /\ Usable
    /\ ret' = Some(is_empty(sections))
    /\ lastOp' = Op("is_empty", <<>>, <<>>, <<>>)
    /\ model' = Flat(model.map, model.live, Some(DOMAIN model.map = {}))
    /\ UNCHANGED <<text, result, sections, scan, out>>

Next ==
    \/ \E l \in DocLinePool : Extend(l)
    \/ Parse
    \/ Unwrap
    \/ Fallback
    \/ \E k \in Keys, v \in Values, s \in Sections : Insert(k, v, s)
    \/ \E k \in Keys, s \in Sections : Get(k, s)
    \/ \E s \in Sections : GetSection(s)
    \/ \E k \in Keys, s \in Sections : Remove(k, s)
    \/ \E s \in Sections : RemoveSection(s)
    \/ IsEmpty

Spec == Init /\ [][Next]_vars

---------------------------------------------------------------------------
(* A caller that uses the case-insensitive accessors on names that differ  *)
(* in case only.                                                           *)

\* the keys the caller stores, and the spellings it asks for
CIStored == { <<"k">>, <<"j">> }

CIKeys == { <<"k">>, <<"K">> }

CISections == { <<"s">>, <<"S">> }

\* the case-sensitive calls, no reference kept beside the document
InsertCased(k, v, s) == CallInsert(k, v, s) /\ UNCHANGED model

GetCased(k, s) == CallGet(k, s) /\ UNCHANGED model

GetCaseInsensitive(k, s, sc) ==
    /\ ret' = get_case_insensitive(sections, sc, k, s)
    /\ lastOp' = Op("get_case_insensitive", k, <<>>, s)
    /\ scan' = sc.order
    /\ UNCHANGED <<text, result, sections, out, model>>

GetSectionCaseInsensitive(s, sc) ==
    /\ ret' = get_section_case_insensitive(sections, sc, s)
    /\ lastOp' = Op("get_section_case_insensitive", <<>>, <<>>, s)
    /\ scan' = sc.order
    /\ UNCHANGED <<text, result, sections, out, model>>

RemoveCaseInsensitive(k, s, sc) ==
    /\ sections' = remove_case_insensitive(sections, sc, k, s).sections
    /\ ret' = remove_case_insensitive(sections, sc, k, s).ret
    /\ lastOp' = Op("remove_case_insensitive", k, <<>>, s)
    /\ scan' = sc.order
    /\ UNCHANGED <<text, result, out, model>>

RemoveSectionCaseInsensitive(s, sc) ==
    /\ sections' = remove_section_case_insensitive(sections, sc, s).sections
    /\ ret' = remove_section_case_insensitive(sections, sc, s).ret
    /\ lastOp' = Op("remove_section_case_insensitive", <<>>, <<>>, s)
    /\ scan' = sc.order
    /\ UNCHANGED <<text, result, out, model>>

NextCI ==
    \/ \E k \in CIStored, v \in Values, s \in CISections : InsertCased(k, v, s)
    \/ \E k \in CIKeys, s \in CISections : GetCased(k, s)
    \/ \E k \in CIKeys, s \in CISections, sc \in Scans(sections) :
            GetCaseInsensitive(k, s, sc)
    \/ \E s \in CISections, sc \in Scans(sections) : GetSectionCaseInsensitive(s, sc)
    \/ \E k \in CIKeys, s \in CISections, sc \in Scans(sections) :
            RemoveCaseInsensitive(k, s, sc)
    \/ \E s \in CISections, sc \in Scans(sections) : RemoveSectionCaseInsensitive(s, sc)

SpecCI == Init /\ [][NextCI]_vars

---------------------------------------------------------------------------
(* A caller that fills a document with arbitrary strings, serializes it    *)
(* and parses the output again.                                            *)

MaxEntries == 2

RTKeys ==
    { <<"a">>, <<"[", "a">>, <<"a", "=">>, <<" ", "a">>, <<"#", "a">> }

RTValues ==
    { <<>>, <<"=", "#", "]">>, <<" ", "x">> }

RTSections ==
    { <<>>, <<" ", "s", "]">>, <<"s", LINE_DELIM, "t">> }

\* the number of key/value pairs a document holds
Size(secs) ==
    Cardinality({e \in RTSections \X RTKeys :
                    e[1] \in DOMAIN secs /\ e[2] \in DOMAIN secs[e[1]]})

\* the document is filled until it is serialized
Filling == result = NoResult

\* document.insert(k, v, s); the caller drops what it returns
InsertAny(k, v, s) ==
    /\ Filling
    /\ get(sections, k, s).some \/ Size(sections) < MaxEntries
    /\ sections' = insert(sections, k, v, s).sections
    /\ UNCHANGED <<text, result, ret, lastOp, scan, out, model>>

\* document.remove(k, s) of a key that is there; the caller drops what it returns
RemoveAny(k, s) ==
    /\ Filling
    /\ get(sections, k, s).some
    /\ sections' = remove(sections, k, s).sections
    /\ UNCHANGED <<text, result, ret, lastOp, scan, out, model>>

\* IniDocument::from_string(document.to_string())
RoundTrip(sc) ==
    /\ Filling
    /\ out' = to_string(sections, sc)
    /\ result' = from_string(out')
    /\ lastOp' = Op("to_string", <<>>, <<>>, <<>>)
    /\ UNCHANGED <<text, sections, ret, scan, model>>

NextRT ==
    \/ \E k \in RTKeys, v \in RTValues, s \in RTSections : InsertAny(k, v, s)
    \/ \E k \in RTKeys, s \in RTSections : RemoveAny(k, s)
    \/ \E sc \in Scans(sections) : RoundTrip(sc)

SpecRT == Init /\ [][NextRT]_vars

---------------------------------------------------------------------------
(* What a text says, line by line, stated without the parser's loop.       *)

\* the position at which line n (1-based) of t starts
StartOf(t, n) ==
    CHOOSE p \in LineStarts(t) : Cardinality({q \in LineStarts(t) : q <= p}) = n

\* the number of the line that starts at p
NumberOf(t, p) == Cardinality({q \in LineStarts(t) : q <= p})

\* line n of t as it stands between the delimiters
RawLine(t, n) == LineAt(t, StartOf(t, n))

\* s without the whitespace before its first and after its last other character
Stripped(s) ==
    LET ink == {i \in 1..Len(s) : s[i] \notin {" ", "\t", "\r", "\n"}} IN
    IF ink = {} THEN <<>>
    ELSE SubSeq(s, CHOOSE i \in ink : \A j \in ink : i <= j,
                   CHOOSE i \in ink : \A j \in ink : j <= i)

\* the lines of t, each trimmed
TrimmedLines(t) == [n \in 1..NumLines(t) |-> Stripped(RawLine(t, n))]

IsSkipped(l) == l = <<>> \/ l[1] \in {"#", ";"}

IsHeader(l) == ~IsSkipped(l) /\ l[1] = "[" /\ l[Len(l)] = "]"

HasEquals(l) == \E i \in 1..Len(l) : l[i] = "="

IsPair(l) == ~IsSkipped(l) /\ ~IsHeader(l) /\ HasEquals(l)

IsOffending(l) ==
    /\ ~IsSkipped(l)
    /\ \/ l = <<"[", "]">>
       \/ ~IsHeader(l) /\ ~HasEquals(l)

FirstEquals(l) == CHOOSE i \in 1..Len(l) : l[i] = "=" /\ \A j \in 1..(i - 1) : l[j] # "="

KeyOf(l) == Stripped(SubSeq(l, 1, FirstEquals(l) - 1))

ValueOf(l) == Stripped(SubSeq(l, FirstEquals(l) + 1, Len(l)))

\* the section line n belongs to: the inner text of the last header above it
\* (ls: the trimmed lines of a text)
SectionOf(ls, n) ==
    LET hs == {m \in 1..(n - 1) : IsHeader(ls[m])} IN
    IF hs = {} THEN <<>>
    ELSE LET m == CHOOSE x \in hs : \A y \in hs : y <= x IN
         SubSeq(ls[m], 2, Len(ls[m]) - 1)

\* the pair lines that set key k in section s
Setters(ls, s, k) ==
    {n \in 1..Len(ls) : IsPair(ls[n]) /\ KeyOf(ls[n]) = k /\ SectionOf(ls, n) = s}

\* what the text says (s, k) is: the value of the last line that sets it
Meaning(ls, s, k) ==
    LET ns == Setters(ls, s, k) IN
    IF ns = {} THEN None
    ELSE Some(ValueOf(ls[CHOOSE x \in ns : \A y \in ns : y <= x]))

\* every section name and key the text or a document mentions
NamesIn(ls) == {SectionOf(ls, n) : n \in 1..Len(ls)}

KeysIn(ls) == {KeyOf(ls[n]) : n \in {m \in 1..Len(ls) : IsPair(ls[m])}}

DocKeys(d) == UNION {DOMAIN d[s] : s \in DOMAIN d}

OffendingLines(ls) == {n \in 1..Len(ls) : IsOffending(ls[n])}

FirstOffending(ls) ==
    CHOOSE n \in OffendingLines(ls) : \A m \in OffendingLines(ls) : n <= m

\* the blank and comment lines among the lines a text is made of
SkippedPool == {c \in LinePool : IsSkipped(Stripped(c))}

---------------------------------------------------------------------------
(* Claims about from_string                                                *)

\* C2: a text that parses yields exactly the entries its pair lines give:
\* key and value are the trimmed halves around the first '=', the section is
\* that of the last header above, the last line setting a key wins, and the
\* document holds no other entry.
C2_ParsedContents ==
    result.tag = "Ok" =>
        LET ls == TrimmedLines(text) IN
        \A s \in NamesIn(ls) \cup DOMAIN result.doc :
        \A k \in KeysIn(ls) \cup DocKeys(result.doc) :
            get(result.doc, k, s) = Meaning(ls, s, k)

\* C2 witness: a parsed text in which a key is set twice under a re-opened
\* section and a value keeps a later '=' and a '#'.
C2_Witness ==
    /\ result.tag = "Ok"
    /\ NumLines(text) = 4
    /\ LET ls == TrimmedLines(text) IN
        /\ IsHeader(ls[1]) /\ IsHeader(ls[3])
        /\ ls[2] = <<"a", "=", "x">>
        /\ IsPair(ls[4])
    /\ get(result.doc, <<"a">>, <<" ", "s">>) = Some(<<"y", "=", "#">>)

\* C3 as stated: MissingEquals carries the line as it stands in the input,
\* leading and trailing whitespace included, and its 1-based number.
C3_OriginalText ==
    (result.tag = "Err" /\ result.err.kind = "MissingEquals") =>
        /\ result.err.lnum \in 1..NumLines(text)
        /\ result.err.text = RawLine(text, result.err.lnum)

\* C3 amended: MissingEquals carries the trimmed text of the first line that
\* is neither comment nor header and has no '=', and its 1-based number.
C3_TrimmedText ==
    (result.tag = "Err" /\ result.err.kind = "MissingEquals") =>
        LET ls == TrimmedLines(text) IN
        /\ result.err.lnum \in 1..NumLines(text)
        /\ result.err.lnum = FirstOffending(ls)
        /\ result.err.text = ls[result.err.lnum]
        /\ ~IsSkipped(result.err.text)
        /\ ~IsHeader(result.err.text)
        /\ ~HasEquals(result.err.text)

\* C3 witness: the error names a line behind the first whose text in the
\* input has whitespace around it.
C3_Witness ==
    /\ result.tag = "Err"
    /\ result.err.kind = "MissingEquals"
    /\ result.err.lnum > 1
    /\ result.err.text = <<"[", "b">>
    /\ RawLine(text, result.err.lnum) # result.err.text

\* C10: from_string fails exactly when some line is offending; the error is
\* that of the earliest offending line, numbered from 1 over all lines; and
\* a failure carries the error alone, no document.
C10_FirstError ==
    result # NoResult =>
        LET ls == TrimmedLines(text) IN
        /\ (result.tag = "Err") <=> (OffendingLines(ls) # {})
        /\ result.tag = "Err" =>
            /\ DOMAIN result = {"tag", "err"}
            /\ result.err.lnum = FirstOffending(ls)
            /\ result.err.kind =
                   IF ls[FirstOffending(ls)] = <<"[", "]">>
                   THEN "EmptyStringSection" ELSE "MissingEquals"
        /\ result.tag = "Ok" => DOMAIN result = {"tag", "doc"}

\* C10 witness: two offending lines of different kinds after a well-formed
\* pair and a comment; the error is the earlier one's.
C10_Witness ==
    /\ result.tag = "Err"
    /\ result.err.kind = "EmptyStringSection"
    /\ result.err.lnum = 3
    /\ LET ls == TrimmedLines(text) IN
        /\ Cardinality(OffendingLines(ls)) = 2
        /\ IsPair(ls[1])
        /\ IsSkipped(ls[2])
        /\ ~HasEquals(ls[4])

\* two results that differ at most in the error's line number
SameOutcome(r1, r2) ==
    /\ r1.tag = r2.tag
    /\ r1.tag = "Ok" => r1.doc = r2.doc
    /\ r1.tag = "Err" => r1.err.kind = r2.err.kind /\ r1.err.text = r2.err.text

\* the error's line number moves by d when the edited line n lies at or
\* above the error's line
Shifted(r1, r2, n, d) ==
    r1.tag = "Err" =>
        r2.err.lnum = IF n <= r1.err.lnum THEN r1.err.lnum + d ELSE r1.err.lnum

\* C5: putting a blank or comment line anywhere into a text, or taking one
\* out, changes neither success, nor the document, nor the error's kind;
\* only the reported line number shifts.
C5_CommentsContributeNothing ==
    [][ /\ Len(text') > Len(text) =>
            /\ \A c \in SkippedPool, p \in LineStarts(text) :
                (Len(text') = Len(text) + Len(c) + 1 /\ text' = InsertBefore(text, p, c)) =>
                    LET r1 == from_string(text)
                        r2 == from_string(text')
                    IN  SameOutcome(r1, r2) /\ Shifted(r1, r2, NumberOf(text, p), 1)
            /\ \A c \in SkippedPool :
                (Len(text') = Len(text) + Len(c) + 1 /\ text' = InsertLast(text, c)) =>
                    from_string(text') = from_string(text)
        /\ Len(text') < Len(text) =>
            \A p \in LineStarts(text) :
                (/\ Len(text) - Len(text') = LineEnd(text, p) - p + 1
                 /\ IsSkipped(Stripped(LineAt(text, p)))
                 /\ text' = DeleteLineAt(text, p)) =>
                    LET r1 == from_string(text)
                        r2 == from_string(text')
                    IN  SameOutcome(r1, r2) /\ Shifted(r1, r2, NumberOf(text, p) + 1, -1)
      ]_vars

\* C5 witness: a text with a comment before the first pair, one after a
\* header and a blank line at the end, parsed to a non-empty document.
C5_Witness ==
    /\ result.tag = "Ok"
    /\ NumLines(text) = 4
    /\ LET ls == TrimmedLines(text) IN
        /\ ls[1] # <<>> /\ ls[1][1] = "#"
        /\ IsHeader(ls[2])
        /\ ls[3] # <<>> /\ ls[3][1] = ";"
        /\ IsPair(ls[4])
    /\ DocKeys(result.doc) # {}


---------------------------------------------------------------------------
(* Claims about the accessors and mutators                                 *)

C6_AgreesWithFlatMap ==
    Usable =>
        /\ \A s \in Sections, k \in Keys :
                get(sections, k, s) = FlatGet(model.map, s, k)
        /\ \A s \in Sections :
                get_section(sections, s) =
                    IF s \in model.live THEN Some(FlatSlice(model.map, s)) ELSE None
        /\ lastOp.op \in {"insert", "get", "get_section", "remove", "remove_section"} =>
                ret = model.expect

\* C6 witness: an insert that overwrote a different value in a section that
\* had been removed and created again.
C6_Witness ==
    /\ lastOp.op = "insert"
    /\ ret.some
    /\ ret.val # lastOp.value
    /\ Cardinality(DOMAIN sections) = 2
    /\ \E s \in DOMAIN sections : DOMAIN sections[s] = {}

\* C7: remove(key, section) keeps every section, leaves all other keys and
\* sections as they were, and leaves the whole document unchanged when the
\* key or the section is absent.
C7_RemoveFrame ==
    [][ lastOp'.op = "remove" =>
            LET k == lastOp'.key
                s == lastOp'.section
            IN  /\ DOMAIN sections' = DOMAIN sections
                /\ \A t \in DOMAIN sections :
                    /\ DOMAIN sections'[t] = DOMAIN sections[t] \ (IF t = s THEN {k} ELSE {})
                    /\ \A j \in DOMAIN sections'[t] : sections'[t][j] = sections[t][j]
                /\ s \in DOMAIN sections => get_section(sections', s).some
                /\ (s \notin DOMAIN sections \/ k \notin DOMAIN sections[s]) =>
                        sections' = sections
      ]_vars

\* C7 witness: a remove took the last key of a section, which is still there
\* and empty, beside another section that holds a key.
C7_Witness ==
    /\ lastOp.op = "remove"
    /\ ret.some
    /\ lastOp.section \in DOMAIN sections
    /\ get_section(sections, lastOp.section) = Some(EmptyMap)
    /\ \E t \in DOMAIN sections : t # lastOp.section /\ DOMAIN sections[t] # {}


---------------------------------------------------------------------------
(* Claims about the case-insensitive accessors                             *)

\* the first section of the scan whose lowercased name is that of s
FirstMatching(order, s) ==
    LET ms == {i \in 1..Len(order) : to_lowercase(order[i]) = to_lowercase(s)} IN
    IF ms = {} THEN None
    ELSE Some(order[CHOOSE i \in ms : \A j \in ms : i <= j])

\* the keys of map m whose lowercased name is that of k
MatchingKeys(m, k) == {x \in DOMAIN m : to_lowercase(x) = to_lowercase(k)}

\* C8: the case-insensitive accessors use one section, the first of the scan
\* that matches: get_case_insensitive looks the key up there and is nothing
\* when that section has no such key, even if another matching section has
\* one; get_section_case_insensitive returns that section;
\* remove_case_insensitive removes from that section only; and with a single
\* matching section and key, differently cased, the case-insensitive get
\* finds the value and the case-sensitive get finds nothing.
C8_FirstMatchingSection ==
    [][ LET k == lastOp'.key
            s == lastOp'.section
            first == FirstMatching(scan', s)
        IN  /\ lastOp'.op = "get_section_case_insensitive" =>
                ret' = IF first.some THEN Some(sections[first.val]) ELSE None
            /\ lastOp'.op = "get_case_insensitive" =>
                /\ IF first.some /\ MatchingKeys(sections[first.val], k) # {}
                   THEN /\ ret'.some
                        /\ \E x \in MatchingKeys(sections[first.val], k) :
                                ret'.val = sections[first.val][x]
                   ELSE ret' = None
                /\ (s \notin DOMAIN sections \/ k \notin DOMAIN sections[s]) =>
                        get(sections, k, s) = None
            /\ lastOp'.op = "remove_case_insensitive" =>
                IF first.some /\ MatchingKeys(sections[first.val], k) # {}
                THEN \E x \in MatchingKeys(sections[first.val], k) :
                        /\ ret' = Some(sections[first.val][x])
                        /\ sections' = remove(sections, x, first.val).sections
                ELSE ret' = None /\ sections' = sections
      ]_vars

\* C8 failing state: two sections fold to the asked name, the one the scan
\* meets first holds keys but not the asked one, and get_case_insensitive
\* returned the value of the other.
C8_Witness ==
    /\ lastOp.op = "get_case_insensitive"
    /\ Len(scan) = 2
    /\ DOMAIN sections[scan[1]] # {}
    /\ MatchingKeys(sections[scan[1]], lastOp.key) = {}
    /\ ret.some
    /\ get(sections, lastOp.key, lastOp.section) = None


---------------------------------------------------------------------------
(* Claims about to_string and the round trip                               *)

\* the <<section, key, value>> triples a document holds
Entries(d) ==
    UNION {{<<n, k, d[n][k]>> : k \in DOMAIN d[n]} : n \in DOMAIN d}

\* a document as insert alone builds it: every section holds a key
NoEmptySection(d) == \A n \in DOMAIN d : DOMAIN d[n] # {}

HasDelim(s) == \E i \in 1..Len(s) : s[i] = LINE_DELIM

\* the strings the text format can carry
Representable(d) ==
    \A n \in DOMAIN d :
        /\ ~HasDelim(n)
        /\ \A k \in DOMAIN d[n] :
            /\ Stripped(k) = k /\ ~HasDelim(k)
            /\ Stripped(d[n][k]) = d[n][k] /\ ~HasDelim(d[n][k])
            /\ ~HasEquals(k)
            /\ k = <<>> \/ k[1] \notin {"#", ";"}
            /\ ~(k # <<>> /\ k[1] = "[" /\ d[n][k] # <<>> /\ d[n][k][Len(d[n][k])] = "]")

\* C1 as stated: whatever strings were inserted, parsing the output of
\* to_string succeeds and gives back the same contents.
C1_RoundTripAnyStrings ==
    (result # NoResult /\ NoEmptySection(sections)) =>
        /\ result.tag = "Ok"
        /\ Entries(result.doc) = Entries(sections)

\* C1 amended: the round trip gives back the same contents when section
\* names hold no line delimiter, keys and values are trimmed and hold no line
\* delimiter, keys hold no '=' and start with neither '#' nor ';', and no key
\* starting with '[' has a value ending with ']'.
C1_RoundTripRepresentable ==
    (result # NoResult /\ NoEmptySection(sections) /\ Representable(sections)) =>
        /\ result.tag = "Ok"
        /\ Entries(result.doc) = Entries(sections)

\* C1 witness: a round trip of the default section and a named one whose
\* name has whitespace and a ']', with a key starting with '[', an empty
\* value and a value "=#]".
C1_Witness ==
    /\ result.tag = "Ok"
    /\ NoEmptySection(sections)
    /\ Representable(sections)
    /\ DOMAIN sections = {<<>>, <<" ", "s", "]">>}
    /\ \E e \in Entries(sections) : e[2] = <<"[", "a">> /\ e[3] = <<>>
    /\ \E e \in Entries(sections) : e[3] = <<"=", "#", "]">>

\* the 'key = value' lines of map m, its keys in the order ks
RECURSIVE PairLines(_, _)
PairLines(m, ks) ==
    IF ks = <<>> THEN <<>>
    ELSE ks[1] \o <<" ", "=", " ">> \o m[ks[1]] \o <<"\n">> \o PairLines(m, Tail(ks))

\* for each name in turn: its header line, then its pair lines
RECURSIVE HeaderBlocks(_, _, _)
HeaderBlocks(d, names, keys) ==
    IF names = <<>> THEN <<>>
    ELSE <<"[">> \o names[1] \o <<"]", "\n">>
            \o PairLines(d[names[1]], keys[names[1]])
            \o HeaderBlocks(d, Tail(names), keys)

\* the length of everything to_string has to emit
RECURSIVE OutputLength(_, _)
OutputLength(d, names) ==
    IF names = {} THEN 0
    ELSE LET n == CHOOSE x \in names : TRUE
             es == {e \in Entries(d) : e[1] = n}
             RECURSIVE Sum(_)
             Sum(E) == IF E = {} THEN 0
                       ELSE LET e == CHOOSE x \in E : TRUE IN
                            Len(e[2]) + Len(e[3]) + 4 + Sum(E \ {e})
         IN  (IF n = <<>> THEN 0 ELSE Len(n) + 3) + Sum(es) + OutputLength(d, names \ {n})

\* C9: the output of to_string is the pair lines of the section "" without
\* a header, if it exists, then for every other section, with or without
\* keys, a header line and that section's pair lines; every pair is there
\* once, every line ends with the delimiter, and the empty document gives
\* the empty string.
C9_OutputStructure ==
    lastOp.op = "to_string" =>
        /\ \E names \in Orders(DOMAIN sections \ {<<>>}),
              keys \in KeyOrders(sections, DOMAIN sections) :
                out = (IF <<>> \in DOMAIN sections
                       THEN PairLines(sections[<<>>], keys[<<>>]) ELSE <<>>)
                        \o HeaderBlocks(sections, names, keys)
        /\ Len(out) = OutputLength(sections, DOMAIN sections)
        /\ out # <<>> => out[Len(out)] = "\n"
        /\ DOMAIN sections = {} => out = <<>>

\* C9 witness: a document with a key in section "", a named section with a
\* key and a named section without keys was serialized.
C9_Witness ==
    /\ lastOp.op = "to_string"
    /\ <<>> \in DOMAIN sections /\ DOMAIN sections[<<>>] # {}
    /\ \E n \in DOMAIN sections : n # <<>> /\ DOMAIN sections[n] # {}
    /\ \E n \in DOMAIN sections : n # <<>> /\ DOMAIN sections[n] = {}

====
